---------------------------- MODULE Spec2Model ----------------------------
(***************************************************************************)
(* A model of src/mainv2.0.py, the evaluator that scores a predicted UML   *)
(* class diagram against a ground-truth one.                                *)
(*                                                                         *)
(* The program is a pipeline of pure functions.  The state is one call     *)
(* frame: the arguments of the function being run (args), what it returned *)
(* or raised (ret), the warnings it printed to sys.stderr (stderr) and the *)
(* position of the run (pc).  Each specification draws the arguments of    *)
(* one function from a bounded set in its Init and applies the function.   *)
(*                                                                         *)
(* Representation of Python values:                                        *)
(*   - a str is a sequence of one-character strings, so that strip, find,  *)
(*     split and the order on strings are computed as Python computes them;*)
(*   - a JSON value that the code reads without knowing its type is a      *)
(*     tagged record: PyStr(s), PyInt(n), None, PyList, PyDict(d);         *)
(*   - a float that round(x, 4) returns is the integer number of 1e-4      *)
(*     units (1.0 is 10000);                                               *)
(*   - a call returns Return(v) or Raise(exception name).                  *)
(***************************************************************************)
EXTENDS Integers, Sequences, FiniteSets, TLC

VARIABLES pc, args, ret, stderr

vars == <<pc, args, ret, stderr>>

---------------------------------------------------------------------------
(* Python values *)

PyStr(s) == [t |-> "str", s |-> s]

PyInt(n) == [t |-> "int", n |-> n]

None == [t |-> "NoneType"]

PyList == [t |-> "list"]

PyDict(d) == [t |-> "dict", d |-> d]

Return(v) == [raised |-> FALSE, value |-> v]

Raise(e) == [raised |-> TRUE, exc |-> e]

NoCall == [raised |-> FALSE, value |-> None]

(* bool(v): None, "", 0 are falsy; a non-empty list or dict is truthy *)
Truthy(v) ==
    CASE v.t = "NoneType" -> FALSE
      [] v.t = "str" -> Len(v.s) > 0
      [] v.t = "int" -> v.n # 0
      [] OTHER -> TRUE

(* hash(v) succeeds: str, int and None are hashable, list and dict are not *)
Hashable(v) == v.t \in {"str", "int", "NoneType"}

---------------------------------------------------------------------------
(* str methods *)

Whitespace == {" "}

RECURSIVE lstrip(_)
lstrip(s) ==
    IF Len(s) > 0 /\ s[1] \in Whitespace THEN lstrip(Tail(s)) ELSE s

RECURSIVE rstrip(_)
rstrip(s) ==
    IF Len(s) > 0 /\ s[Len(s)] \in Whitespace
    THEN rstrip(SubSeq(s, 1, Len(s) - 1))
    ELSE s

strip(s) == rstrip(lstrip(s))

(* c in s *)
Contains(s, c) == \E i \in 1..Len(s) : s[i] = c

(* s.count(c) *)
count(s, c) == Cardinality({i \in 1..Len(s) : s[i] = c})

(* s.find(c) and s.rfind(c), as positions 1..Len(s), 0 when c is not in s *)
(* (Python's index plus one, so that -1 is 0 and the order is kept)       *)
find(s, c) ==
    IF Contains(s, c)
    THEN CHOOSE i \in 1..Len(s) : s[i] = c /\ \A j \in 1..(i - 1) : s[j] # c
    ELSE 0

rfind(s, c) ==
    IF Contains(s, c)
    THEN CHOOSE i \in 1..Len(s) : s[i] = c /\ \A j \in (i + 1)..Len(s) : s[j] # c
    ELSE 0

(* s.split(c, 1): [s] when c is not in s, else [before, after] the first c *)
split1(s, c) ==
    IF Contains(s, c)
    THEN <<SubSeq(s, 1, find(s, c) - 1), SubSeq(s, find(s, c) + 1, Len(s))>>
    ELSE <<s>>

(* s.split(c) *)
RECURSIVE split(_, _)
split(s, c) ==
    IF Contains(s, c)
    THEN <<SubSeq(s, 1, find(s, c) - 1)>> \o split(SubSeq(s, find(s, c) + 1, Len(s)), c)
    ELSE <<s>>

(* the code point of a character, for the order on str *)
ord(c) ==
    CASE c = " " -> 32
      [] c = "A" -> 65
      [] c = "B" -> 66
      [] c = "a" -> 97
      [] OTHER -> 0

(* s > t on two str: lexicographic by code point *)
RECURSIVE StrGt(_, _)
StrGt(s, t) ==
    IF Len(s) = 0 THEN FALSE
    ELSE IF Len(t) = 0 THEN TRUE
    ELSE IF ord(s[1]) # ord(t[1]) THEN ord(s[1]) > ord(t[1])
    ELSE StrGt(Tail(s), Tail(t))

(* all str over an alphabet, up to a length *)
RECURSIVE StringsOver(_, _)
StringsOver(alphabet, n) ==
    IF n = 0 THEN {<<>>}
    ELSE LET shorter == StringsOver(alphabet, n - 1)
         IN shorter \cup {Append(s, c) : s \in {x \in shorter : Len(x) = n - 1}, c \in alphabet}

---------------------------------------------------------------------------
(* normalize_multiplicity *)

OneToOne == <<"1", ".", ".", "1">>
ZeroToMany == <<"0", ".", ".", "*">>
OneToMany == <<"1", ".", ".", "*">>

normalize_multiplicity(mult) ==
    IF ~Truthy(mult) THEN Return(OneToOne)
    ELSE IF mult.t # "str" THEN Raise("AttributeError")
    ELSE LET m == strip(mult.s)
         IN CASE m = <<"1">> -> Return(OneToOne)
              [] m \in {<<"*">>, <<".", ".", "*">>} -> Return(ZeroToMany)
              [] m = <<"1", ".", ".">> -> Return(OneToMany)
              [] OTHER -> Return(m)

---------------------------------------------------------------------------
(* SpecNorm: normalize_multiplicity applied to a str, then to its own result *)

MaxMultLen == 4

MultAlphabet == {"0", "1", ".", "*", " "}

MultInputs == {PyStr(s) : s \in StringsOver(MultAlphabet, MaxMultLen)} \cup {None}

InitNorm ==
    /\ pc = "start"
    /\ args \in {[mult |-> m] : m \in MultInputs}
    /\ ret = NoCall
    /\ stderr = <<>>

CallNormalize ==
    /\ pc = "start"
    /\ ret' = normalize_multiplicity(args.mult)
    /\ pc' = "once"
    /\ UNCHANGED <<args, stderr>>

CallNormalizeAgain ==
    /\ pc = "once"
    /\ ~ret.raised
    /\ args' = [mult |-> PyStr(ret.value)]
    /\ ret' = normalize_multiplicity(PyStr(ret.value))
    /\ pc' = "twice"
    /\ UNCHANGED stderr

NextNorm == CallNormalize \/ CallNormalizeAgain

SpecNorm == InitNorm /\ [][NextNorm]_vars

(* C3: normalize_multiplicity is idempotent: for every input string,        *)
(* including the empty and the whitespace-only ones, normalising the result *)
(* again returns it unchanged.                                              *)
C3_Idempotent ==
    pc = "twice" => (~ret.raised /\ ret.value = args.mult.s)

---------------------------------------------------------------------------
(* parse_attribute, parse_operation *)

Visibilities == {"+", "-", "#", "~"}

void == <<"v", "o", "i", "d">>

(* attr.startswith(('+', '-', '#', '~')) *)
StartsWithVisibility(s) == Len(s) > 0 /\ s[1] \in Visibilities

(* lines 36-43: the name and the type, around the first ':' *)
NameAndType(vis, attr, mult) ==
    IF Contains(attr, ":")
    THEN <<vis, strip(split1(attr, ":")[1]), strip(split1(attr, ":")[2]), mult>>
    ELSE <<vis, attr, <<>>, mult>>

(* lines 29-34: the multiplicity between the last '[' and a closing ']', '1' *)
(* when there is none                                                       *)
MultiplicityAndRest(vis, attr) ==
    IF Contains(attr, "[") /\ attr[Len(attr)] = "]"
    THEN NameAndType(vis, strip(SubSeq(attr, 1, rfind(attr, "[") - 1)),
                     normalize_multiplicity(
                         PyStr(SubSeq(attr, rfind(attr, "[") + 1, Len(attr) - 1))).value)
    ELSE NameAndType(vis, attr, <<"1">>)

(* lines 24-27: the visibility, '+' when there is none *)
AttributeVisibility(attr) ==
    IF StartsWithVisibility(attr)
    THEN MultiplicityAndRest(<<attr[1]>>, strip(Tail(attr)))
    ELSE MultiplicityAndRest(<<"+">>, attr)

parse_attribute(attr) == AttributeVisibility(strip(attr))

(* lines 73-80: one piece of the parameter list, nothing for an empty piece *)
ParseParam(param) ==
    IF Len(param) = 0 THEN <<>>
    ELSE IF Contains(param, ":")
    THEN <<<<strip(split1(param, ":")[1]), strip(split1(param, ":")[2])>>>>
    ELSE <<<<param, <<>>>>>>

(* the for loop of line 72 over params_str.split(',') *)
RECURSIVE ParseParams(_)
ParseParams(pieces) ==
    IF Len(pieces) = 0 THEN <<>>
    ELSE ParseParam(strip(Head(pieces))) \o ParseParams(Tail(pieces))

(* lines 70-80 *)
Params(params_str) ==
    IF Len(strip(params_str)) > 0 THEN ParseParams(split(params_str, ",")) ELSE <<>>

(* lines 60-82: the bare name when '(' or ')' is missing, else the name before *)
(* the first '(' and the parameters up to the next ')'                        *)
NameAndParams(vis, op, ret_type) ==
    IF ~Contains(op, "(") THEN <<vis, op, <<>>, ret_type>>
    ELSE IF ~Contains(op, ")") THEN <<vis, op, <<>>, ret_type>>
    ELSE <<vis, strip(split1(op, "(")[1]), Params(split1(split1(op, "(")[2], ")")[1]), ret_type>>

(* line 53 without the test that the parentheses balance *)
ReturnTypeGuard_unchecked(op) == Contains(op, ":")

(* line 53: if ':' in op and op.count('(') == op.count(')') *)
ReturnTypeGuard(op) == Contains(op, ":") /\ count(op, "(") = count(op, ")")

(* lines 52-58: the return type after the last ':' when that is past the last *)
(* ')', "void" otherwise                                                      *)
ReturnTypeAndRest(vis, op) ==
    IF ReturnTypeGuard(op) /\ rfind(op, ":") > rfind(op, ")")
    THEN NameAndParams(vis, strip(SubSeq(op, 1, rfind(op, ":") - 1)),
                       strip(SubSeq(op, rfind(op, ":") + 1, Len(op))))
    ELSE NameAndParams(vis, op, void)

(* lines 47-50 *)
OperationVisibility(op) ==
    IF StartsWithVisibility(op)
    THEN ReturnTypeAndRest(<<op[1]>>, strip(Tail(op)))
    ELSE ReturnTypeAndRest(<<"+">>, op)

parse_operation(op) == OperationVisibility(strip(op))

---------------------------------------------------------------------------
(* SpecOp: parse_operation applied to a str *)

MaxOpLen == 4

OpAlphabet == {"+", "f", "(", ")", ":", ",", " "}

InitOp ==
    /\ pc = "start"
    /\ args \in {[op |-> s] : s \in StringsOver(OpAlphabet, MaxOpLen)}
    /\ ret = NoCall
    /\ stderr = <<>>

CallParseOperation ==
    /\ pc = "start"
    /\ ret' = Return(parse_operation(args.op))
    /\ pc' = "done"
    /\ UNCHANGED <<args, stderr>>

NextOp == CallParseOperation

SpecOp == InitOp /\ [][NextOp]_vars

(* what is left of an operation string once it is trimmed and its visibility *)
(* prefix is taken off *)
Remainder(s) ==
    IF StartsWithVisibility(strip(s)) THEN strip(Tail(strip(s))) ELSE strip(s)

Unbalanced(s) == count(s, "(") # count(s, ")")

BareName(s) == <<IF StartsWithVisibility(strip(s)) THEN <<strip(s)[1]>> ELSE <<"+">>,
                 Remainder(s), <<>>, void>>

(* C8 as stated: every operation string whose '(' and ')' counts differ     *)
(* parses to the bare-name fallback: the whole remainder as the name, no    *)
(* parameters, return type "void".                                          *)
C8_UnbalancedIsBareName ==
    (pc = "done" /\ Unbalanced(args.op)) => (~ret.raised /\ ret.value = BareName(args.op))

(* C8 amended: an operation string whose '(' and ')' counts differ and that *)
(* has no '(' at all or no ')' at all parses to the bare-name fallback; any *)
(* string with unbalanced parentheses parses without raising, with return   *)
(* type "void".                                                             *)
C8_MissingParenIsBareName ==
    (pc = "done" /\ Unbalanced(args.op)) =>
        /\ ~ret.raised
        /\ ret.value[4] = void
        /\ (~Contains(args.op, "(") \/ ~Contains(args.op, ")")) => ret.value = BareName(args.op)

(* an unbalanced string with a colon after an unclosed '(' has been parsed *)
C8_Witness ==
    /\ pc = "done"
    /\ Unbalanced(args.op)
    /\ Contains(args.op, "(") /\ ~Contains(args.op, ")")
    /\ rfind(args.op, ":") > find(args.op, "(")
    /\ ret.value = BareName(args.op)

---------------------------------------------------------------------------
(* dict methods *)

(* d.get(key, default) *)
Get(d, key, default) == IF key \in DOMAIN d THEN d[key] ELSE default

Bidirectional == PyStr(<<"b", "i", "d", "i", "r", "e", "c", "t", "i", "o", "n", "a", "l">>)

(* a > b may be evaluated: two str or two int (or the same list); any other *)
(* pair of the values modelled raises TypeError                             *)
Comparable(a, b) == (a.t = b.t /\ a.t \in {"str", "int", "list"})

GreaterThan(a, b) ==
    CASE a.t = "str" -> StrGt(a.s, b.s)
      [] a.t = "int" -> a.n > b.n
      [] OTHER -> FALSE

---------------------------------------------------------------------------
(* parse_association *)

(* lines 89-94 *)
AssociationKey(src, tgt, mult_src, mult_tgt, direction) ==
    IF mult_src.raised THEN mult_src
    ELSE IF mult_tgt.raised THEN mult_tgt
    ELSE IF direction = Bidirectional
    THEN IF ~Comparable(src, tgt) THEN Raise("TypeError")
         ELSE IF GreaterThan(src, tgt)
         THEN Return(<<<<tgt, src>>, mult_tgt.value, mult_src.value>>)
         ELSE Return(<<<<src, tgt>>, mult_tgt.value, mult_src.value>>)
    ELSE Return(<<<<src, tgt>>, mult_tgt.value, mult_src.value>>)

parse_association(assoc) ==
    IF "source" \notin DOMAIN assoc \/ "target" \notin DOMAIN assoc THEN Raise("KeyError")
    ELSE AssociationKey(assoc["source"], assoc["target"],
                        normalize_multiplicity(Get(assoc, "multiplicity_source", PyStr(<<>>))),
                        normalize_multiplicity(Get(assoc, "multiplicity_target", PyStr(<<>>))),
                        Get(assoc, "direction", None))

---------------------------------------------------------------------------
(* SpecAssoc: parse_association applied to an association record *)

MaxNameLen == 2

ClassNames == StringsOver({"A", "B"}, MaxNameLen) \ {<<>>}

Multiplicities == {<<>>, <<"1">>, <<"*">>, <<"0", ".", ".", "1">>}

Directions == {Bidirectional, PyStr(<<"u", "n", "i">>)}

Association(src, tgt, m_src, m_tgt, dir) ==
    [source |-> PyStr(src), target |-> PyStr(tgt),
     multiplicity_source |-> PyStr(m_src), multiplicity_target |-> PyStr(m_tgt),
     direction |-> dir]

(* the record of the same association declared from its other end *)
Reversed(assoc) ==
    [source |-> assoc.target, target |-> assoc.source,
     multiplicity_source |-> assoc.multiplicity_target,
     multiplicity_target |-> assoc.multiplicity_source,
     direction |-> assoc.direction]

InitAssoc ==
    /\ pc = "start"
    /\ args \in {[assoc |-> Association(a, b, m1, m2, d)] :
                    a \in ClassNames, b \in ClassNames,
                    m1 \in Multiplicities, m2 \in Multiplicities, d \in Directions}
    /\ ret = NoCall
    /\ stderr = <<>>

CallParseAssociation ==
    /\ pc = "start"
    /\ ret' = parse_association(args.assoc)
    /\ pc' = "done"
    /\ UNCHANGED <<args, stderr>>

NextAssoc == CallParseAssociation

SpecAssoc == InitAssoc /\ [][NextAssoc]_vars

(* C2: a bidirectional association record and the record of the same        *)
(* association declared from its other end (endpoints and multiplicities    *)
(* swapped) get the identical relationship key.                             *)
C2_BidirectionalSymmetric ==
    (pc = "done" /\ args.assoc.direction = Bidirectional) =>
        /\ ~ret.raised
        /\ ret = parse_association(Reversed(args.assoc))

---------------------------------------------------------------------------
(* compute_metrics.process_relationships *)

rel_types == <<"association", "composition", "aggregation", "dependency", "inheritance",
               "realization">>

Range(seq) == {seq[i] : i \in 1..Len(seq)}

(* the two fields a record of each type is required to have *)
RequiredFields(rel_type) ==
    CASE rel_type = "association" -> <<"source", "target">>
      [] rel_type \in {"composition", "aggregation"} -> <<"whole", "part">>
      [] rel_type = "dependency" -> <<"dependent", "supplier">>
      [] rel_type = "inheritance" -> <<"parent", "child">>
      [] rel_type = "realization" -> <<"interface", "implementation">>

(* the print of lines 189, 197, 210, 217, 224: the type and the record *)
MissingFieldWarning(rel_type, rel) ==
    [text |-> "Skipping malformed", rel_type |-> rel_type, rel |-> rel]

(* the print of line 228: the type, the index, the exception and the record *)
ErrorWarning(rel_type, idx, e, rel) ==
    [text |-> "Error parsing", rel_type |-> rel_type, idx |-> idx, exc |-> e, rel |-> rel]

(* what the body of the try, lines 185-226, does with one record: adds a key, *)
(* skips the record for a missing field, or raises into line 227            *)
Added(key) == [raised |-> FALSE, skipped |-> FALSE, value |-> key]

Skipped == [raised |-> FALSE, skipped |-> TRUE]

(* result.add(key): TypeError when a component of the key is unhashable *)
AddKey(key, parts) ==
    IF \A v \in parts : Hashable(v) THEN Added(key) ELSE Raise("TypeError")

(* lines 191-192 *)
AddParsed(key, parts) == IF key.raised THEN key ELSE AddKey(key.value, parts)

(* lines 199-205 *)
AddWholePart(whole, part, mw, mp) ==
    IF mw.raised THEN mw
    ELSE IF mp.raised THEN mp
    ELSE AddKey(<<whole, part, mw.value, mp.value>>, {whole, part})

(* lines 185-226, the two required fields read *)
TryFields(d, rel_type, first, second) ==
    IF first = None \/ second = None THEN Skipped
    ELSE IF rel_type = "association" THEN AddParsed(parse_association(d), {first, second})
    ELSE IF rel_type \in {"composition", "aggregation"}
    THEN AddWholePart(first, second,
                      normalize_multiplicity(Get(d, "multiplicity_whole", PyStr(<<"1">>))),
                      normalize_multiplicity(Get(d, "multiplicity_part", PyStr(<<"1">>))))
    ELSE AddKey(<<first, second>>, {first, second})

(* rel.get on a value that is no dict raises AttributeError *)
TryRecord(rel, rel_type) ==
    IF rel.t # "dict" THEN Raise("AttributeError")
    ELSE TryFields(rel.d, rel_type, Get(rel.d, RequiredFields(rel_type)[1], None),
                   Get(rel.d, RequiredFields(rel_type)[2], None))

(* `break` in the place of `continue`: the loop ends at the skipped record *)
BreakAt(idx, n) == n

(* `continue`, lines 190, 198, 211, 218, 225, 229: the loop goes on with the *)
(* next record                                                             *)
ContinueAt(idx, n) == idx + 1

RECURSIVE Loop(_, _, _, _, _)

(* one turn of the loop, r what the try did with the record of index idx *)
Turn(rel_list, rel_type, idx, result, warnings, r) ==
    IF r.raised
    THEN Loop(rel_list, rel_type, ContinueAt(idx, Len(rel_list)), result,
              Append(warnings, ErrorWarning(rel_type, idx, r.exc, rel_list[idx + 1])))
    ELSE IF r.skipped
    THEN Loop(rel_list, rel_type, ContinueAt(idx, Len(rel_list)), result,
              Append(warnings, MissingFieldWarning(rel_type, rel_list[idx + 1])))
    ELSE Loop(rel_list, rel_type, idx + 1, result \cup {r.value}, warnings)

(* the for loop of line 183, from the record of index idx (from 0) on *)
Loop(rel_list, rel_type, idx, result, warnings) ==
    IF idx >= Len(rel_list) THEN [result |-> result, stderr |-> warnings]
    ELSE Turn(rel_list, rel_type, idx, result, warnings,
              TryRecord(rel_list[idx + 1], rel_type))

process_relationships(rel_list, rel_type) == Loop(rel_list, rel_type, 0, {}, <<>>)

---------------------------------------------------------------------------
(* SpecRels: process_relationships applied to a list of records of one type *)

MaxRels == 2

A == PyStr(<<"A">>)
B == PyStr(<<"B">>)
Star == PyStr(<<"*">>)
One == PyStr(<<"1">>)

(* a dict with the two required fields of its type *)
Ends(rel_type, first, second) ==
    (RequiredFields(rel_type)[1] :> first) @@ (RequiredFields(rel_type)[2] :> second)

(* records of every kind the loop tells apart: well formed, a required field *)
(* absent or null, not a dict, an endpoint that cannot be hashed              *)
CommonRecords(rel_type) ==
    { PyDict(Ends(rel_type, A, B)),
      PyDict(Ends(rel_type, B, A)),
      PyDict(RequiredFields(rel_type)[2] :> B),
      PyDict(Ends(rel_type, A, None)),
      PyDict(Ends(rel_type, PyList, B)),
      PyStr(<<"x">>) }

(* and, where the key holds multiplicities or an ordered pair: multiplicities *)
(* given, a multiplicity that is a number, endpoints that cannot be compared  *)
RelRecords(rel_type) ==
    CommonRecords(rel_type) \cup
    CASE rel_type = "association" ->
             { PyDict(Ends(rel_type, A, B) @@ ("multiplicity_source" :> One)
                      @@ ("multiplicity_target" :> Star) @@ ("direction" :> Bidirectional)),
               PyDict(Ends(rel_type, B, A) @@ ("multiplicity_source" :> Star)
                      @@ ("multiplicity_target" :> One) @@ ("direction" :> Bidirectional)),
               PyDict(Ends(rel_type, A, B) @@ ("multiplicity_source" :> PyInt(2))),
               PyDict(Ends(rel_type, PyInt(1), B) @@ ("direction" :> Bidirectional)) }
      [] rel_type \in {"composition", "aggregation"} ->
             { PyDict(Ends(rel_type, A, B) @@ ("multiplicity_whole" :> One)
                      @@ ("multiplicity_part" :> Star)),
               PyDict(Ends(rel_type, A, B) @@ ("multiplicity_part" :> PyInt(2))) }
      [] OTHER -> { PyDict(Ends(rel_type, A, PyInt(1))) }

RECURSIVE ListsOver(_, _)
ListsOver(S, n) ==
    IF n = 0 THEN {<<>>}
    ELSE LET shorter == ListsOver(S, n - 1)
         IN shorter \cup {Append(l, x) : l \in {y \in shorter : Len(y) = n - 1}, x \in S}

InitRels ==
    /\ pc = "start"
    /\ args \in UNION {{[rel_list |-> l, rel_type |-> rt] : l \in ListsOver(RelRecords(rt), MaxRels)} :
                          rt \in Range(rel_types)}
    /\ ret = NoCall
    /\ stderr = <<>>

CallProcessRelationships ==
    /\ pc = "start"
    /\ LET out == process_relationships(args.rel_list, args.rel_type)
       IN /\ ret' = Return(out.result)
          /\ stderr' = stderr \o out.stderr
    /\ pc' = "done"
    /\ UNCHANGED args

NextRels == CallProcessRelationships

SpecRels == InitRels /\ [][NextRels]_vars

(* a record lacks a required field: it is a dict in which the field is absent *)
(* or null                                                                    *)
LacksRequiredField(rel, rel_type) ==
    /\ rel.t = "dict"
    /\ \E i \in 1..2 : Get(rel.d, RequiredFields(rel_type)[i], None) = None

(* the records of the list the loop has to skip, by place (from 1) *)
BadPlaces(rel_list, rel_type) ==
    {i \in 1..Len(rel_list) : \/ LacksRequiredField(rel_list[i], rel_type)
                              \/ TryRecord(rel_list[i], rel_type).raised}

GoodPlaces(rel_list, rel_type) == (1..Len(rel_list)) \ BadPlaces(rel_list, rel_type)

(* C4: process_relationships never raises, prints exactly one warning for    *)
(* each record that lacks a required field or fails during key construction, *)
(* each about its own record and in list order, and returns exactly the keys *)
(* of the other records, wherever in the list the bad records are.           *)
C4_FaultIsolated ==
    pc = "done" =>
        LET bad == BadPlaces(args.rel_list, args.rel_type)
            good == GoodPlaces(args.rel_list, args.rel_type)
        IN /\ ~ret.raised
           /\ Len(stderr) = Cardinality(bad)
           /\ \A k \in 1..Len(stderr) :
                  \E i \in bad : /\ Cardinality({j \in bad : j <= i}) = k
                                 /\ stderr[k].rel = args.rel_list[i]
           /\ ret.value = {TryRecord(args.rel_list[i], args.rel_type).value : i \in good}

(* a list with a field-missing record before a well-formed one has given one *)
(* key and one warning                                                       *)
C4_Witness ==
    /\ pc = "done"
    /\ Len(args.rel_list) = 2
    /\ LacksRequiredField(args.rel_list[1], args.rel_type)
    /\ 2 \in GoodPlaces(args.rel_list, args.rel_type)
    /\ Cardinality(ret.value) = 1
    /\ Len(stderr) = 1

(* C9: every warning printed for a skipped relationship record names the     *)
(* relationship type and the index of the record in its list.                *)
C9_WarningNamesTypeAndIndex ==
    \A k \in 1..Len(stderr) :
        /\ "rel_type" \in DOMAIN stderr[k]
        /\ "idx" \in DOMAIN stderr[k]

---------------------------------------------------------------------------
(* compute_metrics *)

(* {parse_attribute(a) for a in cls.get("attributes", [])} and the like *)
AttrSet(cls) == {parse_attribute(a) : a \in Range(Get(cls, "attributes", <<>>))}

OpSet(cls) == {parse_operation(o) : o \in Range(Get(cls, "operations", <<>>))}

LiteralSet(enum) == {<<<<"+">>, lit, <<>>, <<"1">>>> : lit \in Range(Get(enum, "literals", <<>>))}

(* the loops of lines 144-148 and 150-154 over one document's classes: the *)
(* dict of elements, a later record replacing an earlier one of its name;  *)
(* cls["name"] raises KeyError                                              *)
RECURSIVE AddClasses(_, _)
AddClasses(classes, elements) ==
    IF Len(classes) = 0 THEN Return(elements)
    ELSE IF "name" \notin DOMAIN Head(classes) THEN Raise("KeyError")
    ELSE AddClasses(Tail(classes),
                    (Head(classes).name :> [type |-> "class", attrs |-> AttrSet(Head(classes)),
                                            ops |-> OpSet(Head(classes))])
                    @@ elements)

(* the loops of lines 157-160 and 162-165 over one document's enumerations *)
RECURSIVE AddEnums(_, _)
AddEnums(enums, elements) ==
    IF Len(enums) = 0 THEN Return(elements)
    ELSE IF "name" \notin DOMAIN Head(enums) THEN Raise("KeyError")
    ELSE AddEnums(Tail(enums),
                  (Head(enums).name :> [type |-> "enum", attrs |-> LiteralSet(Head(enums)),
                                        ops |-> {}])
                  @@ elements)

(* the enumerations on top of the classes, when no class raised *)
ThenEnums(data, classes) ==
    IF classes.raised THEN classes
    ELSE AddEnums(Get(data, "enumerations", <<>>), classes.value)

NoElements == [name \in {} |-> None]

(* true_elements or pred_elements once lines 144-165 have run *)
Elements(data) == ThenEnums(data, AddClasses(Get(data, "classes", <<>>), NoElements))

(* names and attributes alone decide a match: the operations are not compared *)
ElementsMatch_attrs_only(t, p) == t.attrs = p.attrs

(* line 173 *)
ElementsMatch(t, p) == t.attrs = p.attrs /\ t.ops = p.ops

(* lines 168-174 *)
MatchedClasses(true_elements, pred_elements) ==
    {name \in DOMAIN true_elements :
        /\ name \in DOMAIN pred_elements
        /\ ElementsMatch(true_elements[name], pred_elements[name])}

(* data.get("relationships", {}).get(rt, []) *)
RelList(data, rt) == Get(Get(data, "relationships", <<>>), rt, <<>>)

(* every key that either side holds counts as matched *)
MatchedKeys_union(gt_set, pred_set) == gt_set \cup pred_set

(* true_rels[t] & pred_rels[t], lines 249 and 264 *)
MatchedKeys(gt_set, pred_set) == gt_set \cap pred_set

(* lines 232-236 for one document: what process_relationships returns and *)
(* prints for each type                                                   *)
Relationships(data) ==
    [rt \in Range(rel_types) |-> process_relationships(RelList(data, rt), rt)]

(* sum(len(v) for v in rels.values()), lines 247-248 *)
RECURSIVE TotalKeys(_, _)
TotalKeys(rels, i) ==
    IF i > Len(rel_types) THEN 0
    ELSE Cardinality(rels[rel_types[i]].result) + TotalKeys(rels, i + 1)

(* the warnings of lines 232-236, type by type, ground truth before prediction *)
RECURSIVE RelWarnings(_, _, _)
RelWarnings(true_rels, pred_rels, i) ==
    IF i > Len(rel_types) THEN <<>>
    ELSE true_rels[rel_types[i]].stderr \o pred_rels[rel_types[i]].stderr
         \o RelWarnings(true_rels, pred_rels, i + 1)

(* a quotient n/d of two counts, d > 0, is the pair <<n, d>> *)
(* 0.0 is <<0, 1>>                                           *)
Zero == <<0, 1>>

(* a level with nothing predicted (or nothing true) scores 1.0 *)
ratio_vacuous(match_n, n) == IF n > 0 THEN <<match_n, n>> ELSE <<1, 1>>

(* match_n / n if n > 0 else 0.0, lines 240 and 241 *)
ratio(match_n, n) == IF n > 0 THEN <<match_n, n>> ELSE Zero

(* round(x, 4) of x = q[1]/q[2] >= 0, in units of 1e-4, halves to even; the *)
(* quotient is exact here, and a float quotient of two counts this small   *)
(* is never close enough to a rounding boundary to round the other way     *)
round4(q) ==
    LET scaled == q[1] * 10000
        floor == scaled \div q[2]
        rest == scaled % q[2]
    IN IF 2 * rest > q[2] THEN floor + 1
       ELSE IF 2 * rest = q[2] THEN floor + (floor % 2)
       ELSE floor

(* line 242 *)
F1(p, r) ==
    IF p[1] * r[2] + r[1] * p[2] > 0
    THEN <<2 * p[1] * r[1] * (p[2] * r[2]), (p[2] * r[2]) * (p[1] * r[2] + r[1] * p[2])>>
    ELSE Zero

(* line 243 *)
Rounded(p, r) == [precision |-> round4(p), recall |-> round4(r), f1 |-> round4(F1(p, r))]

(* lines 239-243 *)
calc_prf(true_n, pred_n, match_n) == Rounded(ratio(match_n, pred_n), ratio(match_n, true_n))

(* sum(len(true_rels[t] & pred_rels[t]) for t in rel_types), line 249 *)
RECURSIVE TotalMatched(_, _, _)
TotalMatched(true_rels, pred_rels, i) ==
    IF i > Len(rel_types) THEN 0
    ELSE Cardinality(MatchedKeys(true_rels[rel_types[i]].result, pred_rels[rel_types[i]].result))
         + TotalMatched(true_rels, pred_rels, i + 1)

(* lines 246-249 and 292-299 *)
Counts(true_elements, pred_elements, matched_classes, true_rels, pred_rels) ==
    [true_classes_and_enums |-> Cardinality(DOMAIN true_elements),
     predicted_classes_and_enums |-> Cardinality(DOMAIN pred_elements),
     matched_classes_and_enums |-> Cardinality(matched_classes),
     true_relationships |-> TotalKeys(true_rels, 1),
     predicted_relationships |-> TotalKeys(pred_rels, 1),
     matched_relationships |-> TotalMatched(true_rels, pred_rels, 1)]

(* lines 252-286; the lists are sorted lists without repeats and are given as *)
(* sets, the relationship lists as sets of raw keys                           *)
Detailed(true_elements, pred_elements, matched_classes, true_rels, pred_rels) ==
    [class_matching |->
        [matched |-> matched_classes,
         mismatched_in_ground_truth |-> DOMAIN true_elements \ matched_classes,
         extra_in_prediction |-> DOMAIN pred_elements \ matched_classes],
     relationship_matching |->
        [rt \in Range(rel_types) |->
            [matched |-> MatchedKeys(true_rels[rt].result, pred_rels[rt].result),
             missing_in_prediction |-> true_rels[rt].result \ pred_rels[rt].result,
             extra_in_prediction |-> pred_rels[rt].result \ true_rels[rt].result]]]

(* lines 288-301 *)
Report(c, detailed) ==
    [class_metrics |-> calc_prf(c.true_classes_and_enums, c.predicted_classes_and_enums,
                                c.matched_classes_and_enums),
     relationship_metrics |-> calc_prf(c.true_relationships, c.predicted_relationships,
                                       c.matched_relationships),
     overall_metrics |-> calc_prf(c.true_classes_and_enums + c.true_relationships,
                                  c.predicted_classes_and_enums + c.predicted_relationships,
                                  c.matched_classes_and_enums + c.matched_relationships),
     counts |-> c,
     detailed |-> detailed]

(* lines 167-301, the elements of both documents built *)
Score(true_elements, pred_elements, matched_classes, true_rels, pred_rels) ==
    [ret |-> Return(Report(Counts(true_elements, pred_elements, matched_classes,
                                  true_rels, pred_rels),
                           Detailed(true_elements, pred_elements, matched_classes,
                                    true_rels, pred_rels))),
     stderr |-> RelWarnings(true_rels, pred_rels, 1)]

(* lines 139-301: a KeyError of lines 144-165 leaves the function before any *)
(* relationship is read                                                      *)
ScoreElements(true_data, pred_data, te, pe) ==
    IF te.raised THEN [ret |-> te, stderr |-> <<>>]
    ELSE IF pe.raised THEN [ret |-> pe, stderr |-> <<>>]
    ELSE Score(te.value, pe.value, MatchedClasses(te.value, pe.value),
               Relationships(true_data), Relationships(pred_data))

compute_metrics(true_data, pred_data) ==
    ScoreElements(true_data, pred_data, Elements(true_data), Elements(pred_data))

CallComputeMetrics ==
    /\ pc = "start"
    /\ LET out == compute_metrics(args.true_data, args.pred_data)
       IN /\ ret' = out.ret
          /\ stderr' = stderr \o out.stderr
    /\ pc' = "done"
    /\ UNCHANGED args

---------------------------------------------------------------------------
(* Spec: compute_metrics applied to two documents of classes and enumerations *)

MaxClasses == 2

Car == <<"C", "a", "r">>
Bus == <<"B", "u", "s">>
Color == <<"C", "o", "l", "o", "r">>

SpeedInt == <<"+", "s", "p", "e", "e", "d", ":", " ", "i", "n", "t">>
SpeedIntOne == SpeedInt \o <<"[", "1", "]">>
Honk == <<"+", "h", "o", "n", "k", "(", ")">>

ClassRecords ==
    { [name |-> Car, attributes |-> <<SpeedInt>>],
      [name |-> Car, attributes |-> <<SpeedIntOne>>],
      [name |-> Car, attributes |-> <<SpeedInt>>, operations |-> <<Honk>>],
      [name |-> Bus],
      [attributes |-> <<SpeedInt>>] }

EnumLists == {<<>>, <<[name |-> Color, literals |-> <<<<"R">>, <<"G">>>>]>>}

(* a document; a key whose list is empty is left out *)
Document(classes, enums) ==
    (IF Len(classes) > 0 THEN "classes" :> classes ELSE <<>>)
    @@ (IF Len(enums) > 0 THEN "enumerations" :> enums ELSE <<>>)

ClassDocuments ==
    {Document(c, e) : c \in ListsOver(ClassRecords, MaxClasses), e \in EnumLists}

Init ==
    /\ pc = "start"
    /\ args \in {[true_data |-> t, pred_data |-> p] : t \in ClassDocuments, p \in ClassDocuments}
    /\ ret = NoCall
    /\ stderr = <<>>

Next == CallComputeMetrics

Spec == Init /\ [][Next]_vars

(* a document whose only content is one class with one attribute *)
OneClass(name, attr) == [classes |-> <<[name |-> name, attributes |-> <<attr>>]>>]

One10000 == [precision |-> 10000, recall |-> 10000, f1 |-> 10000]

(* C1: an attribute with no bracketed multiplicity is canonicalised like the *)
(* same attribute with an explicit [1]: with ground truth {Car: [a]} and     *)
(* prediction {Car: [a + "[1]"]}, a without brackets, Car is matched and the *)
(* class metrics are precision = recall = f1 = 1.0.                          *)
C1_AbsentMultiplicityIsOne ==
    \A c \in ClassRecords :
        (/\ pc = "done"
         /\ "name" \in DOMAIN c /\ "attributes" \in DOMAIN c
         /\ ~Contains(c.attributes[1], "[")
         /\ args.true_data = OneClass(c.name, c.attributes[1])
         /\ args.pred_data = OneClass(c.name, c.attributes[1] \o <<"[", "1", "]">>))
        => /\ ~ret.raised
           /\ parse_attribute(c.attributes[1]) = parse_attribute(c.attributes[1] \o <<"[", "1", "]">>)
           /\ c.name \in ret.value.detailed.class_matching.matched
           /\ ret.value.class_metrics = One10000

(* the names both documents define with different canonical attribute sets or *)
(* different canonical operation sets                                        *)
DifferingNames ==
    LET t == Elements(args.true_data).value
        p == Elements(args.pred_data).value
    IN {name \in DOMAIN t \cap DOMAIN p :
           t[name].attrs # p[name].attrs \/ t[name].ops # p[name].ops}

(* the names both documents define with the same canonical sets *)
AgreeingNames ==
    LET t == Elements(args.true_data).value
        p == Elements(args.pred_data).value
    IN {name \in DOMAIN t \cap DOMAIN p :
           t[name].attrs = p[name].attrs /\ t[name].ops = p[name].ops}

(* C5: a name that both documents define with different canonical attribute  *)
(* sets, or different operation sets, is never in class_matching.matched; it *)
(* is in mismatched_in_ground_truth and in extra_in_prediction and does not  *)
(* add to matched_classes_and_enums.                                         *)
C5_MatchingIsExact ==
    (pc = "done" /\ ~ret.raised) =>
        /\ \A name \in DifferingNames :
              /\ name \notin ret.value.detailed.class_matching.matched
              /\ name \in ret.value.detailed.class_matching.mismatched_in_ground_truth
              /\ name \in ret.value.detailed.class_matching.extra_in_prediction
        /\ ret.value.counts.matched_classes_and_enums = Cardinality(AgreeingNames)

(* Car is defined on both sides with the same attributes and different       *)
(* operations, next to a class that matches                                  *)
C5_Witness ==
    /\ pc = "done"
    /\ ~ret.raised
    /\ \E name \in DifferingNames :
          Elements(args.true_data).value[name].attrs = Elements(args.pred_data).value[name].attrs
    /\ AgreeingNames # {}

(* a class or enumeration record of the document has no "name" *)
HasNamelessRecord(data) ==
    \E c \in Range(Get(data, "classes", <<>>)) \cup Range(Get(data, "enumerations", <<>>)) :
        "name" \notin DOMAIN c

(* C6: compute_metrics does not reject a document in which a class or        *)
(* enumeration record has no "name": the call does not raise, the record is  *)
(* skipped with a warning and the rest is scored.                            *)
C6_MalformedClassSkipped ==
    (pc = "done" /\ (HasNamelessRecord(args.true_data) \/ HasNamelessRecord(args.pred_data))) =>
        /\ ~ret.raised
        /\ Len(stderr) > 0

---------------------------------------------------------------------------
(* SpecMetrics: compute_metrics applied to two documents of classes and   *)
(* relationships                                                          *)

MaxDocRels == 1

ClassLists ==
    { <<>>,
      <<[name |-> Car, attributes |-> <<SpeedInt>>]>>,
      <<[name |-> Car, attributes |-> <<SpeedIntOne>>]>>,
      <<[name |-> Car, attributes |-> <<SpeedInt>>], [name |-> Bus]>> }

AssociationRecords ==
    { PyDict(Ends("association", A, B) @@ ("multiplicity_source" :> One)
             @@ ("multiplicity_target" :> Star) @@ ("direction" :> Bidirectional)),
      PyDict(Ends("association", B, A) @@ ("multiplicity_source" :> Star)
             @@ ("multiplicity_target" :> One) @@ ("direction" :> Bidirectional)),
      PyDict(Ends("association", A, B)),
      PyDict("target" :> B) }

InheritanceLists == {<<>>, <<PyDict(Ends("inheritance", A, B))>>}

(* a document; a key whose list is empty is left out *)
RelDocument(classes, associations, inheritances) ==
    (IF Len(classes) > 0 THEN "classes" :> classes ELSE <<>>)
    @@ (IF Len(associations) + Len(inheritances) > 0
        THEN "relationships" :>
                ((IF Len(associations) > 0 THEN "association" :> associations ELSE <<>>)
                 @@ (IF Len(inheritances) > 0 THEN "inheritance" :> inheritances ELSE <<>>))
        ELSE <<>>)

RelDocuments ==
    {RelDocument(c, a, i) : c \in ClassLists,
                            a \in ListsOver(AssociationRecords, MaxDocRels),
                            i \in InheritanceLists}

InitMetrics ==
    /\ pc = "start"
    /\ args \in {[true_data |-> t, pred_data |-> p] : t \in RelDocuments, p \in RelDocuments}
    /\ ret = NoCall
    /\ stderr = <<>>

NextMetrics == CallComputeMetrics

SpecMetrics == InitMetrics /\ [][NextMetrics]_vars

Zero10000 == [precision |-> 0, recall |-> 0, f1 |-> 0]

(* C7: at a level where the true count and the predicted count are both zero *)
(* precision, recall and f1 are all 0.0, and so is the overall triple when   *)
(* all four counts are zero.                                                 *)
C7_ZeroCountsGiveZero ==
    pc = "done" =>
        /\ ~ret.raised
        /\ LET c == ret.value.counts
           IN /\ (c.true_classes_and_enums = 0 /\ c.predicted_classes_and_enums = 0)
                    => ret.value.class_metrics = Zero10000
              /\ (c.true_relationships = 0 /\ c.predicted_relationships = 0)
                    => ret.value.relationship_metrics = Zero10000
              /\ (/\ c.true_classes_and_enums = 0 /\ c.predicted_classes_and_enums = 0
                  /\ c.true_relationships = 0 /\ c.predicted_relationships = 0)
                    => ret.value.overall_metrics = Zero10000

(* two empty documents have been scored *)
C7_Witness ==
    /\ pc = "done"
    /\ DOMAIN args.true_data = {} /\ DOMAIN args.pred_data = {}
    /\ ret.value.overall_metrics = Zero10000

Min(a, b) == IF a < b THEN a ELSE b

InUnitInterval(m) == \A f \in {"precision", "recall", "f1"} : m[f] \in 0..10000

(* C10: the matched counts never exceed the true or the predicted counts, so *)
(* every precision, recall and f1 of the three levels lies in [0, 1].        *)
C10_CountsAndMetricsBounded ==
    pc = "done" =>
        /\ ~ret.raised
        /\ LET c == ret.value.counts
           IN /\ c.matched_classes_and_enums
                    <= Min(c.true_classes_and_enums, c.predicted_classes_and_enums)
              /\ c.matched_relationships <= Min(c.true_relationships, c.predicted_relationships)
        /\ InUnitInterval(ret.value.class_metrics)
        /\ InUnitInterval(ret.value.relationship_metrics)
        /\ InUnitInterval(ret.value.overall_metrics)

(* a run in which some but not all relationships and classes match *)
C10_Witness ==
    /\ pc = "done"
    /\ LET c == ret.value.counts
       IN /\ 0 < c.matched_relationships
          /\ c.matched_relationships < c.true_relationships
          /\ c.matched_relationships < c.predicted_relationships
          /\ c.matched_classes_and_enums = 1
          /\ c.true_classes_and_enums = 2
    /\ ret.value.overall_metrics.f1 \in 1..9999

=============================================================================
